---- MODULE Spec2Model ----
(***************************************************************************)
(* A model of tgpyrate.py: one run of main(), i.e. init() followed by      *)
(* tgpyrate() and the send_file() it calls.  The file system, the process  *)
(* table and the SFTP server are the environment: which candidate paths    *)
(* are directories, which Telegram.exe processes run from where, what each *)
(* tar add raises and whether connecting, authenticating and putting       *)
(* succeed are all chosen nondeterministically.                            *)
(***************************************************************************)
EXTENDS Naturals, Sequences, FiniteSets

\* ---------------------------------------------------------------- bounds
\* number of entries of the static installation_locations list
NumStatic == 2
\* largest number of running Telegram.exe processes pgrep() returns
MaxProcs == 2
\* number of entries loc.rglob('*') yields for a located directory
EntriesPerDir == 2

\* ------------------------------------------------------- program constants
\* GZIP_COMP_LEVEL = None (falsy), written 0 here
GZIP_COMP_LEVEL == 0

VARIABLES
    PORTABLE_DETECTION,      \* module flag: os.name == 'nt' and psutil importable
    isDir,                   \* environment: the paths for which Path.is_dir() is true
    installation_locations,  \* module-level list of candidate paths
    installations,           \* module-level list filled by init()
    all_telegram_processes,  \* find_portable(): exe parents of the pgrep() result
    portable_installations,  \* find_portable(): the list being built
    pidx,                    \* find_portable(): position of its for loop
    lidx,                    \* init(): position of "for loc in installation_locations"
    loc,                     \* tgpyrate(): position of "for loc in installations"
    fidx,                    \* tgpyrate(): position of "for f in loc.rglob('*')"
    temp_file,               \* "none" | "open" | "closed"
    temp_data,               \* what has been written to temp_file
    temp_pos,                \* the stream position of temp_file
    opened_tar,              \* "none" | "w" | "w:gz" | "closed"
    archive,                 \* members added to opened_tar, in order
    denied,                  \* entries whose add raised PermissionError
    attempted,               \* entries handed to opened_tar.add, in order
    ssh_transport,           \* "none" | "open" | "closed"
    sftp,                    \* "none" | "open" | "closed"
    netLog,                  \* network calls made, in order
    remote,                  \* what putfo stored under SFTP_DEST
    pc,                      \* the statement the run is at (or ended at)
    outcome                  \* "running" | "returned" | "SystemExit1" | "Unhandled"

vars == <<PORTABLE_DETECTION, isDir, installation_locations, installations,
          all_telegram_processes, portable_installations, pidx, lidx, loc, fidx,
          temp_file, temp_data, temp_pos, opened_tar, archive, denied, attempted,
          ssh_transport, sftp, netLog, remote, pc, outcome>>

locateVars == <<installation_locations, installations, all_telegram_processes,
                portable_installations, pidx, lidx>>
archiveVars == <<loc, fidx, temp_file, temp_data, temp_pos, opened_tar, archive,
                 denied, attempted>>
netVars == <<ssh_transport, sftp, netLog, remote>>
envVars == <<PORTABLE_DETECTION, isDir>>

\* ---------------------------------------------------------------- helpers
\* the static candidate list, lines 60-80: NumStatic distinct paths
StaticLocations == [i \in 1..NumStatic |-> i]

\* every path of the model: the static candidates and one further directory
Dirs == 1..(NumStatic + 1)

Range(s) == {s[i] : i \in 1..Len(s)}

Count(x, s) == Cardinality({i \in 1..Len(s) : s[i] = x})

SeqsUpTo(S, n) == UNION {[1..k -> S] : k \in 0..n}

\* loc.rglob('*'): the entries beneath a directory, in walk order
rglob(d) == [k \in 1..EntriesPerDir |-> <<d, k>>]

Entries == {<<d, k>> : d \in Dirs, k \in 1..EntriesPerDir}

\* variant of IsDir: the existence test is left out
IsDir_NoCheck(l) == l \in Dirs

\* loc.is_dir(), line 98
IsDir(l) == l \in isDir

\* variant of NotSearchedByDefault: the test against the defaults is left out
NotSearchedByDefault_NoCheck(d) == d \in Dirs

\* "exe_parent not in installation_locations", line 134
NotSearchedByDefault(d) == d \notin Range(installation_locations)

\* what opened_tar.add(f) can do; the file system does not change during the
\* run, so an entry met twice behaves the same both times
AddResults(f) ==
    IF f \in denied THEN {"PermissionError"}
    ELSE IF f \in Range(archive) THEN {"ok"}
    ELSE {"ok", "PermissionError", "OSError"}

Running == outcome = "running"

\* ------------------------------------------------------------------- Init
Init ==
    /\ PORTABLE_DETECTION \in BOOLEAN
    /\ isDir \in SUBSET Dirs
    /\ installation_locations = StaticLocations
    /\ installations = <<>>
    /\ all_telegram_processes = <<>>
    /\ portable_installations = <<>>
    /\ pidx = 1
    /\ lidx = 1
    /\ loc = 1
    /\ fidx = 1
    /\ temp_file = "none"
    /\ temp_data = <<>>
    /\ temp_pos = 0
    /\ opened_tar = "none"
    /\ archive = <<>>
    /\ denied = {}
    /\ attempted = <<>>
    /\ ssh_transport = "none"
    /\ sftp = "none"
    /\ netLog = <<>>
    /\ remote = <<>>
    /\ pc = "init"
    /\ outcome = "running"

\* ----------------------------------------------------------------- init()
\* line 94, PORTABLE_DETECTION false: straight to the for loop
InitNoPortable ==
    /\ Running /\ pc = "init"
    /\ ~PORTABLE_DETECTION
    /\ pc' = "init_scan"
    /\ UNCHANGED <<envVars, locateVars, archiveVars, netVars, outcome>>

\* lines 94-95 and 127: find_portable() is entered and pgrep() returns
Pgrep ==
    /\ Running /\ pc = "init"
    /\ PORTABLE_DETECTION
    /\ \E ps \in SeqsUpTo(Dirs, MaxProcs) : all_telegram_processes' = ps
    /\ portable_installations' = <<>>
    /\ pidx' = 1
    /\ pc' = "find_portable"
    /\ UNCHANGED <<envVars, installation_locations, installations, lidx,
                   archiveVars, netVars, outcome>>

\* lines 129-135, the directory is not a default one: append it
FindPortableAppend ==
    /\ Running /\ pc = "find_portable"
    /\ pidx <= Len(all_telegram_processes)
    /\ NotSearchedByDefault(all_telegram_processes[pidx])
    /\ portable_installations' =
           Append(portable_installations, all_telegram_processes[pidx])
    /\ pidx' = pidx + 1
    /\ UNCHANGED <<envVars, installation_locations, installations,
                   all_telegram_processes, lidx, archiveVars, netVars, pc, outcome>>

\* lines 129-134, the directory is already searched by default
FindPortableSkip ==
    /\ Running /\ pc = "find_portable"
    /\ pidx <= Len(all_telegram_processes)
    /\ ~NotSearchedByDefault(all_telegram_processes[pidx])
    /\ pidx' = pidx + 1
    /\ UNCHANGED <<envVars, installation_locations, installations,
                   all_telegram_processes, portable_installations, lidx,
                   archiveVars, netVars, pc, outcome>>

\* lines 137 and 95: return portable_installations (the locals of
\* find_portable() go away) and extend the candidates with it
FindPortableReturn ==
    /\ Running /\ pc = "find_portable"
    /\ pidx > Len(all_telegram_processes)
    /\ installation_locations' = installation_locations \o portable_installations
    /\ all_telegram_processes' = <<>>
    /\ portable_installations' = <<>>
    /\ pidx' = 1
    /\ pc' = "init_scan"
    /\ UNCHANGED <<envVars, installations, lidx, archiveVars, netVars, outcome>>

\* lines 97-99, one iteration of the loop
InitScan ==
    /\ Running /\ pc = "init_scan"
    /\ lidx <= Len(installation_locations)
    /\ installations' = IF IsDir(installation_locations[lidx])
                        THEN Append(installations, installation_locations[lidx])
                        ELSE installations
    /\ lidx' = lidx + 1
    /\ UNCHANGED <<envVars, installation_locations, all_telegram_processes,
                   portable_installations, pidx, archiveVars, netVars, pc, outcome>>

\* variant of InitExit: the empty list is noticed but the run goes on
InitExit_NoExit ==
    /\ Running /\ pc = "init_scan"
    /\ lidx > Len(installation_locations)
    /\ installations = <<>>
    /\ pc' = "tempfile"
    /\ UNCHANGED <<envVars, locateVars, archiveVars, netVars, outcome>>

\* lines 102-103: no installation found, exit(1)
InitExit ==
    /\ Running /\ pc = "init_scan"
    /\ lidx > Len(installation_locations)
    /\ installations = <<>>
    /\ outcome' = "SystemExit1"
    /\ UNCHANGED <<envVars, locateVars, archiveVars, netVars, pc>>

\* line 102 false: init() returns and main() calls tgpyrate()
InitReturn ==
    /\ Running /\ pc = "init_scan"
    /\ lidx > Len(installation_locations)
    /\ installations # <<>>
    /\ pc' = "tempfile"
    /\ UNCHANGED <<envVars, locateVars, archiveVars, netVars, outcome>>

\* ------------------------------------------------------------- tgpyrate()
\* line 177
TempFile ==
    /\ Running /\ pc = "tempfile"
    /\ temp_file' = "open"
    /\ temp_data' = <<>>
    /\ temp_pos' = 0
    /\ pc' = "tar_open"
    /\ UNCHANGED <<envVars, locateVars, loc, fidx, opened_tar, archive, denied,
                   attempted, netVars, outcome>>

\* lines 178-182
TarOpen ==
    /\ Running /\ pc = "tar_open"
    /\ opened_tar' = IF GZIP_COMP_LEVEL # 0 THEN "w:gz" ELSE "w"
    /\ loc' = 1
    /\ fidx' = 1
    /\ pc' = "archive"
    /\ UNCHANGED <<envVars, locateVars, temp_file, temp_data, temp_pos, archive,
                   denied, attempted, netVars, outcome>>

\* the entry the archiving loop is at
CurrentEntry == rglob(installations[loc])[fidx]

InWalk ==
    /\ Running /\ pc = "archive"
    /\ loc <= Len(installations)
    /\ fidx <= EntriesPerDir

\* line 189, the add succeeds
AddOk ==
    /\ InWalk
    /\ "ok" \in AddResults(CurrentEntry)
    /\ opened_tar \in {"w", "w:gz"}
    /\ archive' = Append(archive, CurrentEntry)
    /\ temp_data' = Append(temp_data, CurrentEntry)
    /\ temp_pos' = temp_pos + 1
    /\ attempted' = Append(attempted, CurrentEntry)
    /\ fidx' = fidx + 1
    /\ UNCHANGED <<envVars, locateVars, loc, temp_file, opened_tar, denied,
                   netVars, pc, outcome>>

\* variant of AddPermissionError: no except clause, the error propagates
AddPermissionError_Uncaught ==
    /\ InWalk
    /\ "PermissionError" \in AddResults(CurrentEntry)
    /\ denied' = denied \cup {CurrentEntry}
    /\ attempted' = Append(attempted, CurrentEntry)
    /\ outcome' = "Unhandled"
    /\ UNCHANGED <<envVars, locateVars, loc, fidx, temp_file, temp_data, temp_pos,
                   opened_tar, archive, netVars, pc>>

\* lines 189-191, the add raises PermissionError: skip the entry
AddPermissionError ==
    /\ InWalk
    /\ "PermissionError" \in AddResults(CurrentEntry)
    /\ denied' = denied \cup {CurrentEntry}
    /\ attempted' = Append(attempted, CurrentEntry)
    /\ fidx' = fidx + 1
    /\ UNCHANGED <<envVars, locateVars, loc, temp_file, temp_data, temp_pos,
                   opened_tar, archive, netVars, pc, outcome>>

\* variant of AddOtherError: "except Exception: continue"
AddOtherError_Swallowed ==
    /\ InWalk
    /\ "OSError" \in AddResults(CurrentEntry)
    /\ attempted' = Append(attempted, CurrentEntry)
    /\ fidx' = fidx + 1
    /\ UNCHANGED <<envVars, locateVars, loc, temp_file, temp_data, temp_pos,
                   opened_tar, archive, denied, netVars, pc, outcome>>

\* line 189, the add raises anything else: nothing catches it
AddOtherError ==
    /\ InWalk
    /\ "OSError" \in AddResults(CurrentEntry)
    /\ attempted' = Append(attempted, CurrentEntry)
    /\ outcome' = "Unhandled"
    /\ UNCHANGED <<envVars, locateVars, loc, fidx, temp_file, temp_data, temp_pos,
                   opened_tar, archive, denied, netVars, pc>>

\* line 187 exhausted: on to the next located directory
NextLoc ==
    /\ Running /\ pc = "archive"
    /\ loc <= Len(installations)
    /\ fidx > EntriesPerDir
    /\ loc' = loc + 1
    /\ fidx' = 1
    /\ UNCHANGED <<envVars, locateVars, temp_file, temp_data, temp_pos, opened_tar,
                   archive, denied, attempted, netVars, pc, outcome>>

\* line 193: the tar writer appends its end-of-archive blocks and closes
TarClose ==
    /\ Running /\ pc = "archive"
    /\ loc > Len(installations)
    /\ opened_tar' = "closed"
    /\ temp_data' = Append(temp_data, <<0, 0>>)
    /\ temp_pos' = temp_pos + 1
    /\ pc' = "seek"
    /\ UNCHANGED <<envVars, locateVars, loc, fidx, temp_file, archive, denied,
                   attempted, netVars, outcome>>

\* variant of Seek: the stream is handed over without being rewound
Seek_NoRewind ==
    /\ Running /\ pc = "seek"
    /\ pc' = "send_file"
    /\ UNCHANGED <<envVars, locateVars, archiveVars, netVars, outcome>>

\* line 196
Seek ==
    /\ Running /\ pc = "seek"
    /\ temp_pos' = 0
    /\ pc' = "send_file"
    /\ UNCHANGED <<envVars, locateVars, loc, fidx, temp_file, temp_data, opened_tar,
                   archive, denied, attempted, netVars, outcome>>

\* ------------------------------------------------------------ send_file()
\* line 156, the transport is established
TransportOk ==
    /\ Running /\ pc = "send_file"
    /\ ssh_transport' = "open"
    /\ netLog' = Append(netLog, "Transport")
    /\ pc' = "connect"
    /\ UNCHANGED <<envVars, locateVars, archiveVars, sftp, remote, outcome>>

\* variant of TransportFail: the exception is swallowed and the run goes on
TransportFail_NoExit ==
    /\ Running /\ pc = "send_file"
    /\ netLog' = Append(netLog, "Transport")
    /\ pc' = "connect"
    /\ UNCHANGED <<envVars, locateVars, archiveVars, ssh_transport, sftp, remote,
                   outcome>>

\* lines 156-158, the constructor raises: exit(1)
TransportFail ==
    /\ Running /\ pc = "send_file"
    /\ netLog' = Append(netLog, "Transport")
    /\ outcome' = "SystemExit1"
    /\ UNCHANGED <<envVars, locateVars, archiveVars, ssh_transport, sftp, remote, pc>>

\* line 160, authentication succeeds
ConnectOk ==
    /\ Running /\ pc = "connect"
    /\ netLog' = Append(netLog, "connect")
    /\ pc' = "from_transport"
    /\ UNCHANGED <<envVars, locateVars, archiveVars, ssh_transport, sftp, remote,
                   outcome>>

\* variant of ConnectFail: connect() inside the try block, so exit(1)
ConnectFail_Exit1 ==
    /\ Running /\ pc = "connect"
    /\ netLog' = Append(netLog, "connect")
    /\ outcome' = "SystemExit1"
    /\ UNCHANGED <<envVars, locateVars, archiveVars, ssh_transport, sftp, remote, pc>>

\* line 160, authentication raises: nothing catches it
ConnectFail ==
    /\ Running /\ pc = "connect"
    /\ netLog' = Append(netLog, "connect")
    /\ outcome' = "Unhandled"
    /\ UNCHANGED <<envVars, locateVars, archiveVars, ssh_transport, sftp, remote, pc>>

\* line 161
FromTransport ==
    /\ Running /\ pc = "from_transport"
    /\ sftp' = "open"
    /\ netLog' = Append(netLog, "from_transport")
    /\ pc' = "putfo"
    /\ UNCHANGED <<envVars, locateVars, archiveVars, ssh_transport, remote, outcome>>

\* line 163, the put succeeds: the stream is read from its position to its end
PutfoOk ==
    /\ Running /\ pc = "putfo"
    /\ remote' = SubSeq(temp_data, temp_pos + 1, Len(temp_data))
    /\ temp_pos' = Len(temp_data)
    /\ netLog' = Append(netLog, "putfo")
    /\ pc' = "sftp_close"
    /\ UNCHANGED <<envVars, locateVars, loc, fidx, temp_file, temp_data, opened_tar,
                   archive, denied, attempted, ssh_transport, sftp, outcome>>

\* line 163, the put raises: nothing catches it
PutfoFail ==
    /\ Running /\ pc = "putfo"
    /\ netLog' = Append(netLog, "putfo")
    /\ outcome' = "Unhandled"
    /\ UNCHANGED <<envVars, locateVars, archiveVars, ssh_transport, sftp, remote, pc>>

\* variant of SftpClose: the two close calls in the other order
SftpClose_TransportFirst ==
    /\ Running /\ pc = "sftp_close"
    /\ ssh_transport' = "closed"
    /\ netLog' = Append(netLog, "transport.close")
    /\ pc' = "transport_close"
    /\ UNCHANGED <<envVars, locateVars, archiveVars, sftp, remote, outcome>>

\* line 166
SftpClose ==
    /\ Running /\ pc = "sftp_close"
    /\ sftp' = "closed"
    /\ netLog' = Append(netLog, "sftp.close")
    /\ pc' = "transport_close"
    /\ UNCHANGED <<envVars, locateVars, archiveVars, ssh_transport, remote, outcome>>

\* line 167
TransportClose ==
    /\ Running /\ pc = "transport_close"
    /\ ssh_transport' = "closed"
    /\ netLog' = Append(netLog, "transport.close")
    /\ pc' = "temp_close"
    /\ UNCHANGED <<envVars, locateVars, archiveVars, sftp, remote, outcome>>

\* line 202, then tgpyrate() and main() return
TempClose ==
    /\ Running /\ pc = "temp_close"
    /\ temp_file' = "closed"
    /\ outcome' = "returned"
    /\ UNCHANGED <<envVars, locateVars, loc, fidx, temp_data, temp_pos, opened_tar,
                   archive, denied, attempted, netVars, pc>>

\* ------------------------------------------------------------------- main
Next ==
    \/ InitNoPortable
    \/ Pgrep
    \/ FindPortableAppend
    \/ FindPortableSkip
    \/ FindPortableReturn
    \/ InitScan
    \/ InitExit
    \/ InitReturn
    \/ TempFile
    \/ TarOpen
    \/ AddOk
    \/ AddPermissionError
    \/ AddOtherError
    \/ NextLoc
    \/ TarClose
    \/ Seek
    \/ TransportOk
    \/ TransportFail
    \/ ConnectOk
    \/ ConnectFail
    \/ FromTransport
    \/ PutfoOk
    \/ PutfoFail
    \/ SftpClose
    \/ TransportClose
    \/ TempClose

Spec == Init /\ [][Next]_vars

\* ------------------------------------------------------ stages of the run
InInit == pc \in {"init", "find_portable", "init_scan"}

InitReturned == ~InInit

ScanFinished == pc = "init_scan" /\ lidx > Len(installation_locations)

SendFileEntered ==
    pc \in {"send_file", "connect", "from_transport", "putfo", "sftp_close",
            "transport_close", "temp_close"}

Ended == outcome # "running"

\* the candidates that exist as directories
ExistingCandidates == {l \in Range(installation_locations) : l \in isDir}

\* lines 186-187: the entries the two nested loops visit, in order
RECURSIVE Walk(_)
Walk(ins) == IF ins = <<>> THEN <<>> ELSE rglob(Head(ins)) \o Walk(Tail(ins))

FullLog == <<"Transport", "connect", "from_transport", "putfo", "sftp.close",
             "transport.close">>

\* the status the process ends with, lines 103, 158 and 210-211: 0 when main()
\* returns, the argument of exit(1), and 1 again when an exception reaches
\* the top level uncaught (the interpreter prints the traceback and exits 1)
ExitStatus ==
    CASE outcome = "returned" -> 0
      [] outcome = "SystemExit1" -> 1
      [] outcome = "Unhandled" -> 1

IsPrefix(s, t) == Len(s) <= Len(t) /\ s = SubSeq(t, 1, Len(s))

\* ---------------------------------------------------------------- claims

\* C1: when no candidate location exists as a directory, the run never leaves
\* init(): once the candidates are complete it can only go on scanning or
\* exit(1), it ends with SystemExit(1) and nothing else, no temporary stream
\* is created and no network call of any kind is made.
C1_NoInstallationExits ==
    (pc = "init_scan" \/ InitReturned) /\ ExistingCandidates = {}
        => /\ pc = "init_scan"
           /\ installations = <<>>
           /\ outcome \in {"running", "SystemExit1"}
           /\ Running => ENABLED (InitScan \/ InitExit)
           /\ temp_file = "none" /\ opened_tar = "none"
           /\ netLog = <<>> /\ ssh_transport = "none" /\ sftp = "none"

C1_Witness ==
    /\ outcome = "SystemExit1" /\ pc = "init_scan"
    /\ ExistingCandidates = {}
    /\ Len(installation_locations) > NumStatic

\* C2: once the scan of init() is over, and so whenever init() has returned,
\* the installations list holds exactly the candidates (static and
\* process-derived) that are directories; init() returns only when there is
\* at least one, and during the scan it holds exactly the existing ones
\* among the candidates already looked at.
C2_InstallationsAreExisting ==
    /\ pc = "init_scan" =>
           Range(installations) =
               {l \in Range(SubSeq(installation_locations, 1, lidx - 1)) : l \in isDir}
    /\ ScanFinished \/ InitReturned => Range(installations) = ExistingCandidates
    /\ InitReturned => ExistingCandidates # {}

C2_Witness ==
    /\ pc = "tempfile"
    /\ (NumStatic + 1) \in Range(installations)
    /\ \E l \in Range(installation_locations) : l \notin isDir
    /\ \E l \in 1..NumStatic : l \in Range(installations)

\* C3: a permission error never ends the run: while archiving, the members of
\* the archive are exactly the attempted entries that raised no permission
\* error (the entry a run aborted at apart, which C9 is about); and when the
\* loop is over (no add raised anything else) every entry of every located
\* directory has been attempted, the archive holds exactly those whose add
\* raised no permission error, and the run is at the upload stage or beyond.
C3_PermissionErrorsSkipped ==
    /\ denied \cap Range(archive) = {}
    /\ denied \subseteq Range(attempted)
    /\ pc = "archive" /\ Running
           => Range(archive) = Range(attempted) \ denied
    /\ pc = "archive" /\ Ended
           => /\ attempted # <<>>
              /\ attempted[Len(attempted)] \notin denied
    /\ pc = "archive" /\ Running /\ loc > Len(installations) => ENABLED TarClose
    /\ pc = "seek" \/ SendFileEntered
           => /\ attempted = Walk(installations)
              /\ Range(archive) = Range(Walk(installations)) \ denied
              /\ temp_data = Append(archive, <<0, 0>>)

C3_Witness ==
    /\ pc = "connect"
    /\ denied # {}
    /\ archive # <<>>
    /\ Len(installations) > 1

\* C4: when the Transport constructor fails the run ends with SystemExit(1)
\* and the constructor call is the only network call ever made: no connect
\* (authentication), no SFTP session, no put.
C4_TransportFailureExits ==
    netLog # <<>> /\ ssh_transport = "none"
        => /\ outcome = "SystemExit1"
           /\ pc = "send_file"
           /\ netLog = <<"Transport">>
           /\ sftp = "none"
           /\ remote = <<>>

C4_Witness ==
    /\ outcome = "SystemExit1" /\ pc = "send_file"
    /\ netLog = <<"Transport">>
    /\ archive # <<>>

\* C5 as stated: once the transport is established and the SFTP session open,
\* both are closed when send_file() ends, whether or not the put succeeded.
C5_ClosedRegardless ==
    sftp # "none" /\ "putfo" \in Range(netLog) /\ Ended
        => sftp = "closed" /\ ssh_transport = "closed"

\* C5 amended: the session and then the transport are closed, in that order,
\* when the put returns normally, and after send_file() has returned both are
\* closed; when the put raises, send_file() ends with both still open and no
\* close is ever called.
C5_ClosedInOrderAfterPut ==
    /\ IsPrefix(netLog, FullLog)
    /\ sftp = "closed" <=> "sftp.close" \in Range(netLog)
    /\ ssh_transport = "closed" <=> "transport.close" \in Range(netLog)
    /\ ssh_transport = "closed" => sftp = "closed"
    /\ sftp = "closed" => remote = temp_data
    /\ pc = "temp_close" => sftp = "closed" /\ ssh_transport = "closed"
    /\ pc = "putfo" /\ Ended
           => /\ sftp = "open" /\ ssh_transport = "open"
              /\ netLog = SubSeq(FullLog, 1, 4)

C5_Witness ==
    /\ pc = "temp_close" /\ outcome = "returned"
    /\ sftp = "closed" /\ ssh_transport = "closed"
    /\ netLog = FullLog

\* C6: whenever the run has ended after tgpyrate() created the temporary
\* stream, the stream has been closed.
C6_TempFileAlwaysClosed ==
    Ended /\ temp_file # "none" => temp_file = "closed"

\* C7 as stated: a run that ends with an authentication failure, a put
\* failure or a non-permission archive error ends with an exit code that is
\* neither 0 nor 1.
C7_UnhandledIsNot0Or1 ==
    Ended /\ pc \in {"archive", "connect", "putfo"} => ExitStatus \notin {0, 1}

\* C7 amended: the run returns normally, with exit status 0, exactly when
\* every stage succeeded: directories located, archive written and rewound,
\* transport established, authenticated, stream put, session and transport
\* closed.  exit(1) is called only for "no installation found" and "transport
\* not established".  A failed authentication, a failed put and a
\* non-permission archive error each end the run with an exception nothing
\* handles, not through exit(1) and never with status 0; the status of such
\* a run is 1 as well.  After a failed authentication no SFTP session is
\* opened and no put made.
C7_ExitOutcomes ==
    /\ outcome = "returned"
           <=> /\ Ended
               /\ installations # <<>>
               /\ attempted = Walk(installations)
               /\ opened_tar = "closed"
               /\ netLog = FullLog
               /\ remote = temp_data
    /\ outcome = "returned"
           => sftp = "closed" /\ ssh_transport = "closed" /\ temp_file = "closed"
    /\ outcome = "SystemExit1"
           <=> \/ Ended /\ pc = "init_scan" /\ installations = <<>>
               \/ Ended /\ pc = "send_file" /\ ssh_transport = "none"
    /\ outcome = "Unhandled"
           <=> Ended /\ pc \in {"archive", "connect", "putfo"}
    /\ Ended /\ pc = "connect"
           => /\ netLog = <<"Transport", "connect">>
              /\ sftp = "none"
              /\ remote = <<>>
    /\ Ended => (ExitStatus = 0 <=> outcome = "returned")
    /\ Ended /\ outcome # "returned" => ExitStatus = 1

C7_Witness ==
    /\ outcome = "Unhandled" /\ pc = "connect"
    /\ netLog = <<"Transport", "connect">>

\* C8, the state part: a network call is made only after init() has returned
\* with installations, every entry of every located directory has been
\* attempted, the tar writer is closed and the stream is at offset 0 (where
\* it stays until the put reads it); each network call is made at most once.
C8_StagesInv ==
    /\ netLog # <<>> \/ SendFileEntered
           => /\ InitReturned
              /\ installations # <<>>
              /\ attempted = Walk(installations)
              /\ opened_tar = "closed"
              /\ temp_file = "open" \/ outcome = "returned"
    /\ pc \in {"send_file", "connect", "from_transport", "putfo"} => temp_pos = 0
    /\ "putfo" \in Range(netLog) /\ pc # "putfo" => remote = Append(archive, <<0, 0>>)
    /\ \A c \in Range(FullLog) : Count(c, netLog) <= 1
    /\ opened_tar # "none" => temp_file # "none"
    /\ temp_file # "none" => InitReturned

\* C8, the step part: once the first network call has been made nothing is
\* written to the archive or the stream, no entry is attempted, and the
\* installations are what they were.
C8_StagesAct ==
    netLog # <<>> \/ SendFileEntered
        => /\ archive' = archive
           /\ temp_data' = temp_data
           /\ attempted' = attempted
           /\ installations' = installations
           /\ Len(netLog') <= Len(netLog) + 1

\* C8: the three stages run in sequence and once each: locate, then archive
\* (all entries attempted, writer closed, stream rewound), then upload; the
\* archive is not written after the upload has started; one connection
\* attempt, one authentication attempt and one put at most.
C8_StagesInSequence == []C8_StagesInv /\ [][C8_StagesAct]_vars

C8_Witness ==
    /\ outcome = "returned"
    /\ Len(installations) > 1
    /\ Len(archive) > 1
    /\ remote = Append(archive, <<0, 0>>)

\* C9: only a permission error is swallowed.  While the loop runs, every
\* attempted entry is either in the archive or was denied; when an add raises
\* anything else the run ends there with an unhandled error: the entry it
\* ended at is the last one attempted, it is neither archived nor counted as
\* denied, the entries after it are never attempted, the tar writer is still
\* open, the stream is not rewound and no network call is made.
C9_OtherErrorsAbort ==
    /\ pc = "archive" /\ Running
           => /\ Range(attempted) = Range(archive) \cup denied
              /\ IsPrefix(attempted, Walk(installations))
    /\ pc = "archive" /\ Ended
           => /\ outcome = "Unhandled"
              /\ attempted # <<>>
              /\ IsPrefix(attempted, Walk(installations))
              /\ attempted[Len(attempted)] = CurrentEntry
              /\ CurrentEntry \notin Range(archive) \cup denied
              /\ Range(SubSeq(attempted, 1, Len(attempted) - 1))
                     = Range(archive) \cup denied
              /\ opened_tar \in {"w", "w:gz"}
              /\ temp_data = archive
              /\ temp_pos = Len(temp_data)
              /\ temp_file = "open"
              /\ netLog = <<>> /\ ssh_transport = "none" /\ sftp = "none"

C9_Witness ==
    /\ pc = "archive" /\ outcome = "Unhandled"
    /\ denied # {}
    /\ archive # <<>>
    /\ Len(attempted) < Len(Walk(installations))

\* C10 as stated: after init() has returned, no directory is held twice in
\* the installations list.
C10_NoDuplicateInstallation ==
    InitReturned => \A d \in Dirs : Count(d, installations) <= 1

\* C10 amended: find_portable() never yields a directory of the static
\* candidate list, and it yields a directory once per matching process that
\* runs from it (not once per directory); so after init() has returned the
\* installations list holds each static candidate at most once and holds a
\* located directory as many times as the candidate list names it.
C10_OncePerProcess ==
    /\ pc = "find_portable"
           => /\ installation_locations = StaticLocations
              /\ portable_installations =
                     SelectSeq(SubSeq(all_telegram_processes, 1, pidx - 1),
                               LAMBDA d : d \notin Range(StaticLocations))
    /\ pc # "init" /\ pc # "find_portable"
           => /\ IsPrefix(StaticLocations, installation_locations)
              /\ \A d \in Range(StaticLocations) :
                     Count(d, installation_locations) = 1
              /\ PORTABLE_DETECTION \/ installation_locations = StaticLocations
    /\ ScanFinished \/ InitReturned
           => \A d \in Dirs :
                  Count(d, installations) =
                      IF d \in isDir THEN Count(d, installation_locations) ELSE 0

C10_Witness ==
    /\ pc = "tempfile"
    /\ Count(NumStatic + 1, installations) = 2
    /\ \E d \in Range(StaticLocations) : Count(d, installations) = 1

====
